---- MODULE Spec2Model ----
(***************************************************************************)
(* State-machine model of notifier.py (SOTA desktop notifier): the priming *)
(* read, the poll loop of main(), handle_spot() and the memoizing          *)
(* get_summit().  Ids, summits and distances are drawn from small sets.    *)
(***************************************************************************)
EXTENDS Integers, Sequences, FiniteSets, TLC

\* ------------------------------------------------------------------ bounds
\* Largest spot id the feed hands out (ids are 4..MaxId, gaps allowed).
MaxId == 7
\* Longest batch one get_spots call returns.
MaxLen == 3
\* Number of poll cycles explored (the loop itself is unbounded).
MaxCycles == 2
\* Longest batch explored under the fairness specification NormalSpec.
LiveMaxLen == 1
\* Longest time, in seconds, one fetch with the handling of its batch takes.
MaxDelay == 2
\* Number of Running fetches explored by the timing specification TimeSpec.
MaxPolls == 3

Ids == 4..MaxId

\* ----------------------------------------------------- the remote services
\* (associationCode, summitCode) pairs known to the model.
Keys == {<<"A", "001">>, <<"B", "002">>}

\* What the feed serves for a spot id: a spot is immutable, its summit is a
\* function of its id (even ids on summit A/001, odd ids on B/002).
SpotOf(id) ==
    [id |-> id,
     associationCode |-> IF id % 2 = 0 THEN "A" ELSE "B",
     summitCode |-> IF id % 2 = 0 THEN "001" ELSE "002"]

\* Every feed response: at most MaxLen spots with distinct ids, in ANY order
\* (the code does not check that the feed is newest-first).
BatchesOfLen(n) ==
    { [k \in 1..n |-> SpotOf(f[k])] :
        f \in { g \in [1..n -> Ids] : \A a, b \in 1..n : a # b => g[a] # g[b] } }
Batches == UNION { BatchesOfLen(n) : n \in 0..MaxLen }

\* The summit record the summits API serves for a key.  Summits lie on the
\* observer's meridian; latitudes are whole degrees of arc.
SummitRecord(key) ==
    [latitude |-> IF key[1] = "A" THEN 1 ELSE 0 - 2, longitude |-> 0, altM |-> 1000]

\* A well-formed JSON answer that is no summit record (key unknown upstream).
NotFoundRecord == [message |-> "not found"]

\* Observer positions (decimal "latitude,longitude" of the command line).
Locations == {<<0, 0>>}

\* Distance thresholds of the command line (-d), in degrees of arc.
Thresholds == {1, 2}

\* Poll intervals of the command line (-i), in seconds; 60 is the default.
DefaultInterval == 60
Intervals == {1, DefaultInterval, 3599, 3600, 3601, 7200}

\* ------------------------------------------------------------ pure helpers
\* line 125: the divisor that turns the interval into hours
SecondsPerHour == 3600

\* line 125: get_spots(-1 * max(1, args.interval / 3600)) asks for the spots
\* of the last max(1, interval / 3600) hours; interval / 3600 is a true
\* division, so in seconds the window is max(1 * 3600, interval) long.
LookbackSeconds(seconds) ==
    IF seconds > 1 * SecondsPerHour THEN seconds ELSE 1 * SecondsPerHour

Abs(x) == IF x < 0 THEN 0 - x ELSE x

\* mpu.haversine_distance restricted to two points of one meridian, where the
\* great-circle distance is the latitude difference (unit: one degree of arc).
haversine_distance(a, b) == Abs(a[1] - b[1])

\* reversed(spots)
reversed_identity(s) == s
RECURSIVE reversed(_)
reversed(s) == IF s = <<>> THEN <<>> ELSE Append(reversed(Tail(s)), Head(s))

\* line 129: spot['id'] > latest
IsNew_geq(spot, mark) == spot.id >= mark
IsNew(spot, mark) == spot.id > mark

\* line 88: distance > threshold  (too far away)
TooFar_geq(distance, limit) == distance >= limit
TooFar(distance, limit) == distance > limit

\* line 116: assert len(baseline) == 1
PrimingOk_nonempty(batch) == Len(batch) >= 1
PrimingOk(batch) == Len(batch) = 1

\* lines 133-134: if len(spots) > 0: latest = spots[0]['id']
KeepLatest_last(mark, batch) == IF Len(batch) > 0 THEN batch[Len(batch)].id ELSE mark
KeepLatest_reset(mark, batch) == IF Len(batch) > 0 THEN batch[1].id ELSE 0
KeepLatest(mark, batch) == IF Len(batch) > 0 THEN batch[1].id ELSE mark

\* line 128: the for loop is over once every element of reversed(spots) is taken
LoopDone_early(k, batch) == k >= Len(batch)
LoopDone(k, batch) == k > Len(batch)

\* line 41: (assocCode, summitCode) in summits.keys()
Cached_never(cache, key) == FALSE
Cached(cache, key) == key \in DOMAIN cache

\* line 48: summits[(assocCode, summitCode)] = summit
Store_only(cache, key, summit) == [k \in {key} |-> summit]
Store(cache, key, summit) ==
    [k \in (DOMAIN cache) \cup {key} |-> IF k = key THEN summit ELSE cache[k]]

KeyOf(spot) == <<spot.associationCode, spot.summitCode>>

\* ------------------------------------------------------------------- state
VARIABLES
    pc,            \* position in main(): prime, sleep, fetch, loop, crashed
    exc,           \* the exception that ended main(), "none" while it runs
    location,      \* args.location parsed (line 111)
    threshold,     \* args.distance
    baseline,      \* line 115: the priming batch
    latest,        \* the high-water mark (0 while unbound, before line 117)
    spots,         \* line 125: the batch of the current cycle
    i,             \* index of the next element of reversed(spots)
    summits,       \* line 28: the location cache
    cycle,         \* completed poll cycles
    handled,       \* history: handle_spot calls per spot id
    notified,      \* history: notifications handed to Popen (line 96) per spot id
    cycleHandled,  \* history: ids passed to handle_spot in this cycle, in order
    cycleNotified, \* history: ids handed to Popen in this cycle, in order
    requests,      \* history: remote summit requests (line 45) per key
    skipped,       \* feed history: ids skipped the first time the feed listed them
    maxHead,       \* feed history: largest head id of the priming read and the batches
    interval,      \* args.interval, seconds
    now,           \* timing: the current instant, seconds since the start
    fetchedAt,     \* timing: instant of the latest get_spots request
    prevFetchedAt, \* timing: instant of the get_spots request before it
    windowFrom,    \* timing: instant the latest Running request reaches back to
    polls          \* timing: Running get_spots requests issued

vars == <<pc, exc, location, threshold, baseline, latest, spots, i, summits,
          cycle, handled, notified, cycleHandled, cycleNotified, requests,
          skipped, maxHead, interval, now, fetchedAt, prevFetchedAt, windowFrom, polls>>

config == <<location, threshold>>
history == <<handled, notified, cycleHandled, cycleNotified, requests>>
\* The feed history is recorded by HistSpec only; Spec leaves it as it starts.
feedHistory == <<skipped, maxHead>>
\* The clock runs in TimeSpec only; the other specifications abstract from time.
clock == <<interval, now, fetchedAt, prevFetchedAt, windowFrom, polls>>
program == <<exc, config, baseline, latest, spots, i, summits, cycle, history, feedHistory>>

EmptyCache == [k \in {} |-> NotFoundRecord]

Start ==
    /\ pc = "prime"
    /\ exc = "none"
    /\ location \in Locations
    /\ threshold \in Thresholds
    /\ baseline = <<>>
    /\ latest = 0
    /\ spots = <<>>
    /\ i = 1
    /\ summits = EmptyCache
    /\ cycle = 0
    /\ handled = [id \in Ids |-> 0]
    /\ notified = [id \in Ids |-> 0]
    /\ cycleHandled = <<>>
    /\ cycleNotified = <<>>
    /\ requests = [k \in Keys |-> 0]
    /\ skipped = {}
    /\ maxHead = 0
    /\ now = 0
    /\ fetchedAt = 0
    /\ prevFetchedAt = 0
    /\ windowFrom = 0
    /\ polls = 0

Init == Start /\ interval = DefaultInterval

\* An uncaught exception leaves main(): the process ends with a traceback.
Raise(e) ==
    /\ pc' = "crashed"
    /\ exc' = e

\* lines 114-118: baseline = get_spots(1); assert len(baseline) == 1; latest = ...
Prime ==
    /\ pc = "prime"
    /\ \/ /\ Raise("FeedError")
          /\ UNCHANGED <<baseline, latest>>
       \/ \E b \in Batches :
            /\ baseline' = b
            /\ IF PrimingOk(b)
                 THEN /\ latest' = b[1].id
                      /\ pc' = "sleep"
                      /\ exc' = exc
                 ELSE /\ Raise("AssertionError")
                      /\ latest' = latest
    /\ UNCHANGED <<config, spots, i, summits, cycle, history>>

\* line 122: time.sleep(args.interval)
Sleep ==
    /\ pc = "sleep"
    /\ cycle < MaxCycles
    /\ pc' = "fetch"
    /\ UNCHANGED <<exc, config, baseline, latest, spots, i, summits, cycle, history>>

\* line 125: spots = get_spots(...); a transport error or a malformed payload
\* raises inside get_spots (lines 33-34) and nothing in main() catches it.
GetSpots ==
    /\ pc = "fetch"
    /\ \/ /\ Raise("FeedError")
          /\ UNCHANGED <<spots, i, cycleHandled, cycleNotified>>
       \/ \E b \in Batches :
            /\ spots' = b
            /\ i' = 1
            /\ cycleHandled' = <<>>
            /\ cycleNotified' = <<>>
            /\ pc' = "loop"
            /\ exc' = exc
    /\ UNCHANGED <<config, baseline, latest, summits, cycle, handled, notified, requests>>

\* lines 128-129: an element of reversed(spots) whose id is not above the mark
SkipSpot ==
    /\ pc = "loop"
    /\ ~LoopDone(i, spots)
    /\ ~IsNew(reversed(spots)[i], latest)
    /\ i' = i + 1
    /\ UNCHANGED <<pc, exc, config, baseline, latest, spots, summits, cycle, history>>

\* lines 91-96 of handle_spot: the strings are built and notify-send is spawned;
\* Popen raises OSError when the program cannot be started.
Notify(id) ==
    /\ notified' = [notified EXCEPT ![id] = @ + 1]
    /\ cycleNotified' = Append(cycleNotified, id)
    /\ \/ /\ i' = i + 1
          /\ UNCHANGED <<pc, exc>>
       \/ /\ Raise("OSError")
          /\ i' = i

\* lines 85-96 of handle_spot, once get_summit has returned `summit`
Evaluate(spot, summit) ==
    IF "latitude" \notin DOMAIN summit
      THEN \* line 85: summit['latitude'] raises KeyError
           /\ Raise("KeyError")
           /\ UNCHANGED <<i, notified, cycleNotified>>
      ELSE LET summitLoc == <<summit.latitude, summit.longitude>>
               distance == haversine_distance(location, summitLoc)
           IN  IF TooFar(distance, threshold)
                 THEN /\ i' = i + 1
                      /\ UNCHANGED <<pc, exc, notified, cycleNotified>>
                 ELSE Notify(spot.id)

\* lines 128-130 and 80-96: handle_spot(spot, location, args.distance) for a new
\* spot, get_summit (lines 38-49) included.
HandleSpot ==
    /\ pc = "loop"
    /\ ~LoopDone(i, spots)
    /\ LET spot == reversed(spots)[i]
           key == KeyOf(spot)
       IN  /\ IsNew(spot, latest)
           /\ handled' = [handled EXCEPT ![spot.id] = @ + 1]
           /\ cycleHandled' = Append(cycleHandled, spot.id)
           /\ IF Cached(summits, key)
                THEN /\ UNCHANGED <<summits, requests>>
                     /\ Evaluate(spot, summits[key])
                ELSE /\ requests' = [requests EXCEPT ![key] = @ + 1]
                     /\ \/ \* lines 45-46: the request or json.loads raises
                           /\ Raise("SummitError")
                           /\ UNCHANGED <<i, summits, notified, cycleNotified>>
                        \/ \E summit \in {SummitRecord(key), NotFoundRecord} :
                             /\ summits' = Store(summits, key, summit)
                             /\ Evaluate(spot, summit)
    /\ UNCHANGED <<config, baseline, latest, spots, cycle>>

\* lines 132-134 with the loop left after one cycle (main() returns)
Advance_return ==
    /\ pc = "loop"
    /\ LoopDone(i, spots)
    /\ latest' = KeepLatest(latest, spots)
    /\ cycle' = cycle + 1
    /\ pc' = "returned"
    /\ UNCHANGED <<exc, config, baseline, spots, i, summits, history>>

\* lines 132-134: the for loop is over; keep latest
Advance ==
    /\ pc = "loop"
    /\ LoopDone(i, spots)
    /\ latest' = KeepLatest(latest, spots)
    /\ cycle' = cycle + 1
    /\ pc' = "sleep"
    /\ UNCHANGED <<exc, config, baseline, spots, i, summits, history>>

Next ==
    \/ Prime /\ UNCHANGED <<feedHistory, clock>>
    \/ Sleep /\ UNCHANGED <<feedHistory, clock>>
    \/ GetSpots /\ UNCHANGED <<feedHistory, clock>>
    \/ SkipSpot /\ UNCHANGED <<feedHistory, clock>>
    \/ HandleSpot /\ UNCHANGED <<feedHistory, clock>>
    \/ Advance /\ UNCHANGED <<feedHistory, clock>>

Spec == Init /\ [][Next]_vars

\* Normal operation: every feed fetch, location lookup and notification
\* dispatch succeeds, so no step raises.  The process is a single thread that
\* runs whenever it can: each blocking call returns and the next statement
\* is executed (weak fairness of the step).
NormalNext == Next /\ exc' = "none" /\ Len(spots') <= LiveMaxLen

NormalSpec == Init /\ [][NormalNext]_vars /\ WF_vars(NormalNext)

\* ----------------------------------------------------------------- timing
\* The instants of the get_spots requests of main(): the priming read, then
\* per cycle a sleep of `interval` seconds and a request whose window is
\* LookbackSeconds(interval) long.  A request and the work that follows it
\* (the response, the handling of the batch) take 0..MaxDelay seconds.
TimeInit == Start /\ interval \in Intervals

\* line 115: baseline = get_spots(1)
TimePrime ==
    /\ pc = "prime"
    /\ \E d \in 0..MaxDelay :
          /\ fetchedAt' = now
          /\ now' = now + d
    /\ pc' = "sleep"
    /\ UNCHANGED <<interval, prevFetchedAt, windowFrom, polls, program>>

\* line 122: time.sleep(args.interval)
TimeSleep ==
    /\ pc = "sleep"
    /\ polls < MaxPolls
    /\ now' = now + interval
    /\ pc' = "fetch"
    /\ UNCHANGED <<interval, fetchedAt, prevFetchedAt, windowFrom, polls, program>>

\* lines 125-134: the Running request and the handling of its batch
TimeGetSpots ==
    /\ pc = "fetch"
    /\ windowFrom' = now - LookbackSeconds(interval)
    /\ prevFetchedAt' = fetchedAt
    /\ fetchedAt' = now
    /\ polls' = polls + 1
    /\ \E d \in 0..MaxDelay : now' = now + d
    /\ pc' = "sleep"
    /\ UNCHANGED <<interval, program>>

TimeNext ==
    \/ TimePrime
    \/ TimeSleep
    \/ TimeGetSpots

TimeSpec == TimeInit /\ [][TimeNext]_vars

\* The same program with the feed history recorded: which ids the loop
\* skipped the first time the feed listed them, and the largest head id the
\* feed has returned (priming read included).
HistNext ==
    \/ /\ Prime
       /\ maxHead' = IF Len(baseline') > 0 THEN baseline'[1].id ELSE maxHead
       /\ UNCHANGED <<skipped, clock>>
    \/ Sleep /\ UNCHANGED <<feedHistory, clock>>
    \/ /\ GetSpots
       /\ maxHead' = IF pc' = "loop" /\ Len(spots') > 0 /\ spots'[1].id > maxHead
                        THEN spots'[1].id
                        ELSE maxHead
       /\ UNCHANGED <<skipped, clock>>
    \/ /\ SkipSpot
       /\ skipped' = IF /\ handled[reversed(spots)[i].id] = 0
                           /\ reversed(spots)[i].id \notin {baseline[k].id : k \in 1..Len(baseline)}
                        THEN skipped \cup {reversed(spots)[i].id}
                        ELSE skipped
       /\ UNCHANGED <<maxHead, clock>>
    \/ HandleSpot /\ UNCHANGED <<feedHistory, clock>>
    \/ Advance /\ UNCHANGED <<feedHistory, clock>>

HistSpec == Init /\ [][HistNext]_vars

\* A feed that keeps the order the code relies on: every batch lists its ids
\* newest-first (strictly descending) and the head of a non-empty batch is
\* not below the head of any earlier batch or of the priming read.
OrderedFeed ==
    (pc = "fetch" /\ pc' = "loop") =>
        /\ \A a, b \in 1..Len(spots') : a < b => spots'[a].id > spots'[b].id
        /\ Len(spots') > 0 => spots'[1].id >= maxHead

OrderedNext == HistNext /\ OrderedFeed

OrderedSpec == Init /\ [][OrderedNext]_vars

TypeOK ==
    /\ pc \in {"prime", "sleep", "fetch", "loop", "crashed"}
    /\ exc \in {"none", "FeedError", "AssertionError", "SummitError", "KeyError", "OSError"}
    /\ latest \in Ids \cup {0}
    /\ spots \in Batches
    /\ i \in 1..(Len(spots) + 1)
    /\ DOMAIN summits \subseteq Keys
    /\ cycle \in 0..MaxCycles

\* ------------------------------------------------------- claim vocabulary
IdsOf(batch) == [k \in 1..Len(batch) |-> batch[k].id]
Ascending(s) == \A a, b \in 1..Len(s) : a < b => s[a] < s[b]
Descending(s) == \A a, b \in 1..Len(s) : a < b => s[a] > s[b]
IsPrefix(s, t) == Len(s) <= Len(t) /\ \A k \in 1..Len(s) : s[k] = t[k]
\* The ids of the batch above the mark, last feed entry first.
NewIdsLastFirst(batch, mark) ==
    LET new == SelectSeq(IdsOf(batch), LAMBDA x : x > mark)
    IN  [k \in 1..Len(new) |-> new[Len(new) + 1 - k]]
\* Distance of the summit of spot `id` from the observer, as cached.
ResolvedDistance(cache, id) == Abs(cache[KeyOf(SpotOf(id))].latitude - location[1])
Resolved(cache, id) ==
    /\ KeyOf(SpotOf(id)) \in DOMAIN cache
    /\ "latitude" \in DOMAIN cache[KeyOf(SpotOf(id))]
InHandleSpot == pc = "crashed" /\ exc \in {"SummitError", "KeyError", "OSError"}

\* C1 (as claimed): once primed, the high-water mark `latest` never decreases
\* from one step to the next, whatever batches the feed returns.
C1_Monotonicity == [][pc # "prime" => latest' >= latest]_vars

\* C2 (as claimed): over the whole run no spot id is passed to handle_spot
\* more than once.
C2_NoRepeat == \A id \in Ids : handled[id] <= 1

\* C3 (as claimed): no spot whose id is at most the priming spot's id (the
\* initial high-water mark) is ever notified.
C3_PrimingSuppression ==
    Len(baseline) = 1 =>
        \A id \in Ids : id <= baseline[1].id => notified[id] = 0

\* C4 (as claimed): a failing get_spots in a Running cycle leaves the mark
\* unchanged, notifies nothing and takes the loop back to its next sleep.
C4_FeedFailureTolerance ==
    [][(pc = "fetch" /\ exc' = "FeedError")
          => (latest' = latest /\ notified' = notified /\ pc' = "sleep")]_vars

\* C5 (as claimed): when the location of a new spot cannot be resolved, the
\* spot is not notified and the loop goes on to the next spot of the batch
\* (and so to the write of the mark that ends the cycle).
C5_ResolutionFailureIsolation ==
    [][(pc = "loop" /\ exc' \in {"SummitError", "KeyError"})
          => (notified' = notified /\ pc' = "loop" /\ i' = i + 1)]_vars

\* C6 (as claimed): the new spots of a batch are handled in ascending id order.
C6_ChronologicalDelivery == Ascending(cycleHandled)

\* C6 (amended): the new spots of a batch are handled in the reverse of their
\* feed order: what has been handled is always a prefix of the batch's ids
\* above the mark read last-to-first, all of it once the loop is over; so a
\* batch listed newest-first (descending ids) is handled in ascending order.
C6_ReverseFeedOrder ==
    (pc = "loop" \/ InHandleSpot) =>
        /\ IsPrefix(cycleHandled, NewIdsLastFirst(spots, latest))
        /\ (pc = "loop" /\ i > Len(spots))
              => cycleHandled = NewIdsLastFirst(spots, latest)
        /\ Descending(IdsOf(spots)) => Ascending(cycleHandled)

\* C6 witness: feed order [5, 7, 6] above mark 4 has been handled as [6, 7, 5].
C6_Witness ==
    /\ pc = "loop"
    /\ i > Len(spots)
    /\ latest = 4
    /\ IdsOf(spots) = <<5, 7, 6>>
    /\ cycleHandled = <<6, 7, 5>>

\* C7: a poll cycle whose feed response is empty changes neither the mark nor
\* the cache, notifies nothing and returns to the sleep.
C7_EmptyBatchStability ==
    [][((pc = "fetch" /\ pc' = "loop" /\ spots' = <<>>) \/ (pc = "loop" /\ spots = <<>>))
          => /\ latest' = latest
             /\ summits' = summits
             /\ notified' = notified
             /\ pc' \in {"loop", "sleep"}]_vars

\* C7 witness: a cycle with an empty batch has completed after an earlier
\* cycle moved the mark and filled the cache.
C7_Witness ==
    /\ pc = "sleep"
    /\ cycle >= 2
    /\ spots = <<>>
    /\ DOMAIN summits # {}
    /\ Len(baseline) = 1
    /\ latest # baseline[1].id

\* C8: a handle_spot call whose summit resolves hands a notification to the
\* notification facility iff the distance is at most the threshold (equal
\* notifies, greater does not).
C8_ThresholdBoundary ==
    [][\A id \in Ids :
          (handled'[id] = handled[id] + 1 /\ Resolved(summits', id))
             => /\ (notified'[id] = notified[id] + 1)
                       <=> (ResolvedDistance(summits', id) <= threshold)
                /\ (ResolvedDistance(summits', id) > threshold) => (notified' = notified)]_vars

\* C8 witness: one spot at exactly the threshold was notified, and another,
\* farther than the threshold, was handled without a notification.
C8_Witness ==
    /\ \E id \in Ids :
          /\ notified[id] >= 1
          /\ Resolved(summits, id)
          /\ ResolvedDistance(summits, id) = threshold
    /\ \E id \in Ids :
          /\ handled[id] >= 1
          /\ notified[id] = 0
          /\ Resolved(summits, id)
          /\ ResolvedDistance(summits, id) > threshold

\* C9: in the Running state the mark is written only when the for loop over
\* the batch is over and every spot of the batch above the mark has been
\* handled; it stays constant through every other step.
C9_ProcessBeforeAdvance ==
    [][(pc # "prime" /\ latest' # latest)
          => /\ pc = "loop"
             /\ i > Len(spots)
             /\ pc' = "sleep"
             /\ \A k \in 1..Len(spots) :
                   spots[k].id > latest
                      => \E j \in 1..Len(cycleHandled) : cycleHandled[j] = spots[k].id]_vars

\* C9 witness: the mark has just been written after a batch with at least two
\* new spots was handled.
C9_Witness ==
    /\ pc = "sleep"
    /\ cycle >= 1
    /\ Len(cycleHandled) >= 2
    /\ latest = spots[1].id
    /\ latest # baseline[1].id

\* C10 (as claimed): a notification dispatch that fails does not end the
\* loop: the next spot of the batch is taken and the mark is untouched
\* until the cycle's end.
C10_DispatchFailureNotFatal ==
    [][(pc = "loop" /\ exc' = "OSError")
          => (pc' = "loop" /\ i' = i + 1 /\ latest' = latest)]_vars

\* ------------------------------------------------ claim vocabulary (C11-C20)
NoDuplicates(s) == \A a, b \in 1..Len(s) : a # b => s[a] # s[b]
RangeOf(s) == {s[k] : k \in 1..Len(s)}
WithinThreshold(cache, id) ==
    Resolved(cache, id) /\ ResolvedDistance(cache, id) <= threshold

\* C11: get_summit issues a remote request for a key only while the key is
\* absent from the cache; once a fetch has stored the key, no later call
\* issues a request for it.
C11_CacheHitNoFetch ==
    [][\A k \in Keys : k \in DOMAIN summits => requests'[k] = requests[k]]_vars

\* C11 witness: two spots of one summit were handled with a single request.
C11_Witness ==
    /\ pc # "crashed"
    /\ \E a, b \in Ids :
          /\ a # b
          /\ KeyOf(SpotOf(a)) = KeyOf(SpotOf(b))
          /\ handled[a] >= 1
          /\ handled[b] >= 1
          /\ requests[KeyOf(SpotOf(a))] = 1

\* C12 (as claimed): a location lookup that fails, because the request fails
\* or because the key is unknown upstream, leaves the cache unchanged.
C12_FailuresNotCached ==
    [][(pc = "loop" /\ exc' \in {"SummitError", "KeyError"})
          => summits' = summits]_vars

\* C13: in a poll cycle with mark m = latest, only spots with id > m are
\* looked up and handled, each at most once; the notifications of the cycle
\* are exactly the handled spots whose location resolved within the
\* threshold, one each; and when the loop is over every batch entry with
\* id > m has been handled.
C13_ExactSelection ==
    (pc = "loop" \/ InHandleSpot) =>
        /\ \A k \in 1..Len(cycleHandled) : cycleHandled[k] > latest
        /\ RangeOf(cycleHandled) \subseteq RangeOf(IdsOf(spots))
        /\ NoDuplicates(cycleHandled)
        /\ cycleNotified =
              SelectSeq(cycleHandled, LAMBDA x : WithinThreshold(summits, x))
        /\ (pc = "loop" /\ i > Len(spots))
              => RangeOf(cycleHandled) = {x \in RangeOf(IdsOf(spots)) : x > latest}

\* C13 witness: a finished loop over a batch holding a spot at the mark, a
\* new spot that was notified and a new spot too far away.
C13_Witness ==
    /\ pc = "loop"
    /\ i > Len(spots)
    /\ \E x \in RangeOf(IdsOf(spots)) : x <= latest
    /\ Len(cycleNotified) = 1
    /\ Len(cycleHandled) = 2

\* C14 (as claimed): after every completed poll cycle with a non-empty batch
\* the mark is at least every id of that batch and every id handled so far.
C14_MarkIsLargestProcessed ==
    (pc = "sleep" /\ cycle >= 1 /\ spots # <<>>) =>
        /\ \A k \in 1..Len(spots) : latest >= spots[k].id
        /\ \A id \in Ids : handled[id] >= 1 => latest >= id

\* C17: no step removes a key from the cache or changes the value stored
\* for a key.
C17_CacheOnlyGrows ==
    [][\A k \in DOMAIN summits :
          k \in DOMAIN summits' /\ summits'[k] = summits[k]]_vars

\* C17 witness: both summits are cached and a later cycle has completed.
C17_Witness ==
    /\ DOMAIN summits = Keys
    /\ cycle >= 2
    /\ pc = "sleep"

\* C20: when the priming get_spots(1) returns anything but exactly one spot,
\* main() ends with the AssertionError of line 116: no mark is set, no poll
\* cycle is entered and nothing is handled or notified.
C20_PrimingPrecondition ==
    (pc # "prime" /\ exc # "FeedError" /\ Len(baseline) # 1) =>
        /\ pc = "crashed"
        /\ exc = "AssertionError"
        /\ latest = 0
        /\ cycle = 0
        /\ spots = <<>>
        /\ \A id \in Ids : handled[id] = 0 /\ notified[id] = 0

\* C20 witness: the priming read returned an empty feed and main() has ended.
C20_Witness ==
    /\ pc = "crashed"
    /\ exc = "AssertionError"
    /\ baseline = <<>>

\* Every id the feed has listed once the program sleeps: the priming spot,
\* the ids handled and the ids skipped.
SeenIds ==
    {baseline[k].id : k \in 1..Len(baseline)}
        \cup {id \in Ids : handled[id] >= 1} \cup skipped
MaxOf(S) == CHOOSE x \in S : \A y \in S : y <= x

\* C15 (as claimed): a spot skipped the first time the feed lists it (its id
\* is at or below the mark) is never passed to handle_spot afterwards.
C15_LateSpotsSkippedForever == \A id \in skipped : handled[id] = 0

\* C19: with an ordered feed (OrderedSpec), whenever the program sleeps the
\* mark is the largest id the feed has listed so far, no step lowers the
\* mark once it is set, and no id is handled more than once.
C19_OrderedFeedCorrect ==
    /\ []((pc = "sleep") => latest = MaxOf(SeenIds))
    /\ [](\A id \in Ids : handled[id] <= 1)
    /\ [][pc # "prime" => latest' >= latest]_vars

\* C19 witness: two cycles have completed, the mark has risen past the
\* priming id, and a listed id was skipped while another was handled.
C19_Witness ==
    /\ pc = "sleep"
    /\ cycle >= 2
    /\ latest > baseline[1].id
    /\ skipped # {}
    /\ \E id \in Ids : handled[id] = 1 /\ id < latest

\* C16: under normal operation the Running state, once entered, is never
\* left: main() neither ends nor raises, every fetched batch is worked
\* through to the next sleep, and every sleep (of the cycles explored) is
\* followed by the next fetch.
C16_NoTerminalState ==
    /\ [](pc # "prime" => pc \in {"sleep", "fetch", "loop"})
    /\ (pc = "fetch") ~> (pc = "loop")
    /\ (pc = "loop") ~> (pc = "sleep")
    /\ (pc = "sleep" /\ cycle < MaxCycles) ~> (pc = "fetch")

\* C16 witness: two cycles have completed, spots were handled and notified
\* on the way, and the program sleeps again.
C16_Witness ==
    /\ pc = "sleep"
    /\ cycle >= 2
    /\ \E id \in Ids : notified[id] >= 1
    /\ \E id \in Ids : handled[id] >= 1 /\ notified[id] = 0

\* C18 (as claimed): the window of every Running get_spots request reaches
\* back at least to the instant of the request before it.
C18_LookbackCoverage == polls >= 1 => windowFrom <= prevFetchedAt
====
